---- MODULE Spec2Model ----
(***************************************************************************)
(* A model of pycsob/utils.py: canonical message construction, RSA         *)
(* sign/verify, payload assembly, response validation, card provider      *)
(* classification and the merchant data codec.                            *)
(*                                                                         *)
(* Text is a sequence of one-character strings, bytes are a sequence of    *)
(* integers.  A Python value is a record with a type tag `t`; every value  *)
(* carries every field so that two values always compare.                  *)
(***************************************************************************)
EXTENDS Integers, Sequences, FiniteSets, TLC

VARIABLES
    op,         \* the operation that ran last ("none" before any ran)
    pairs,      \* mk_payload / sign / mk_msg_for_sign: the caller's pairs or mapping
    keyfile,    \* the key reference handed to sign / mk_payload
    pubkeyfile, \* the key reference handed to verify
    out,        \* result of the last signing-side operation
    number,     \* get_card_provider: long_masked_number
    provider,   \* get_card_provider: the returned pair
    mdata,      \* encode_merchant_data: the argument
    mresult,    \* encode_merchant_data: the outcome
    response,   \* validate_response: the response object
    sent,       \* the mapping the gateway signed (history)
    raised,     \* validate_response: the exception that left the call
    trace       \* validate_response: the steps the call performed, in order

vars == <<op, pairs, keyfile, pubkeyfile, out, number, provider, mdata, mresult,
          response, sent, raised, trace>>

(***************************************************************************)
(* Bounds of the model.                                                    *)
(***************************************************************************)
MaxPairs == 2
MaxDataLen == 200
MaxSize == 3

(***************************************************************************)
(* Python values.                                                          *)
(***************************************************************************)
Val(t, s, b, n, items, m) ==
    [t |-> t, s |-> s, b |-> b, n |-> n, items |-> items, m |-> m]

StrV(s)      == Val("str", s, FALSE, 0, <<>>, <<>>)
BoolV(b)     == Val("bool", <<>>, b, 0, <<>>, <<>>)
IntV(n)      == Val("int", <<>>, FALSE, n, <<>>, <<>>)
NoneV        == Val("none", <<>>, FALSE, 0, <<>>, <<>>)
ListV(items) == Val("list", <<>>, FALSE, 0, items, <<>>)
\* The base64 text of the RSA signature made with key pair n over the bytes m.
SigV(n, m)   == Val("sig", <<>>, FALSE, n, <<>>, m)
\* datetime.datetime(year, month, day, hour, minute, second), held in m.
DateTimeV(m) == Val("datetime", <<>>, FALSE, 0, <<>>, m)

(***************************************************************************)
(* OrderedDict: a sequence of <<key, value>> with unique keys.             *)
(***************************************************************************)
Keys(d) == {d[i][1] : i \in 1..Len(d)}

HasKey(d, k) == k \in Keys(d)

Get(d, k) == d[CHOOSE i \in 1..Len(d) : d[i][1] = k][2]

\* d[k] = v: replaces the value in place when k is present, appends otherwise.
SetItem(d, k, v) ==
    IF HasKey(d, k)
    THEN [i \in 1..Len(d) |-> IF d[i][1] = k THEN <<k, v>> ELSE d[i]]
    ELSE Append(d, <<k, v>>)

\* d.pop(k) of a present key: the mapping without it.
Pop(d, k) == SelectSeq(d, LAMBDA p : p[1] # k)

DictValues(d) == [i \in 1..Len(d) |-> d[i][2]]

\* OrderedDict(list of pairs): inserts the pairs in order.
RECURSIVE FromPairs(_)
FromPairs(ps) ==
    IF ps = <<>> THEN <<>>
    ELSE SetItem(FromPairs(SubSeq(ps, 1, Len(ps) - 1)), ps[Len(ps)][1], ps[Len(ps)][2])

RECURSIVE Flatten(_)
Flatten(ss) == IF ss = <<>> THEN <<>> ELSE Head(ss) \o Flatten(Tail(ss))

(***************************************************************************)
(* str(), '|'.join() and str.encode('utf-8').                              *)
(***************************************************************************)
DigitChar == <<"0", "1", "2", "3", "4", "5", "6", "7", "8", "9">>

RECURSIVE Decimal(_)
Decimal(n) ==
    IF n < 10 THEN <<DigitChar[n + 1]>>
    ELSE Append(Decimal(n \div 10), DigitChar[(n % 10) + 1])

\* str(v).  Of the lists only the empty one is rendered by the model: a
\* non-empty list is rendered only as a cart, where it is flattened first.
PyStr(v) ==
    CASE v.t = "str"  -> v.s
      [] v.t = "bool" -> IF v.b THEN <<"T", "r", "u", "e">> ELSE <<"F", "a", "l", "s", "e">>
      [] v.t = "int"  -> Decimal(v.n)
      [] v.t = "none" -> <<"N", "o", "n", "e">>
      [] v.t = "list" -> IF v.items = <<>> THEN <<"[", "]">> ELSE <<"[", "?", "]">>
      [] OTHER        -> <<"?">>

\* str.lower() on the characters the model uses.
LowerChar(c) ==
    CASE c = "T" -> "t"
      [] c = "F" -> "f"
      [] c = "N" -> "n"
      [] OTHER   -> c

Lower(s) == [i \in 1..Len(s) |-> LowerChar(s[i])]

str_or_jsbool(v) == IF v.t = "bool" THEN Lower(PyStr(v)) ELSE PyStr(v)

\* sep.join(strs)
RECURSIVE Join(_, _)
Join(sep, strs) ==
    IF strs = <<>> THEN <<>>
    ELSE IF Len(strs) = 1 THEN strs[1]
    ELSE strs[1] \o sep \o Join(sep, Tail(strs))

Rendered(vals) == [i \in 1..Len(vals) |-> str_or_jsbool(vals[i])]

\* The UTF-8 bytes of one character.
Utf8Char(c) ==
    CASE c = "|" -> <<124>>
      [] c = "a" -> <<97>>
      [] c = "b" -> <<98>>
      [] c = "e" -> <<101>>
      [] c = "f" -> <<102>>
      [] c = "l" -> <<108>>
      [] c = "n" -> <<110>>
      [] c = "o" -> <<111>>
      [] c = "r" -> <<114>>
      [] c = "s" -> <<115>>
      [] c = "t" -> <<116>>
      [] c = "u" -> <<117>>
      [] c = "T" -> <<84>>
      [] c = "F" -> <<70>>
      [] c = "N" -> <<78>>
      [] c = "m" -> <<109>>
      [] c = "k" -> <<107>>
      [] c = "C" -> <<67>>
      [] c = "R" -> <<82>>
      [] c = "P" -> <<80>>
      [] c = "[" -> <<91>>
      [] c = "]" -> <<93>>
      [] c = "?" -> <<63>>
      [] c = "E9" -> <<195, 169>>   \* U+00E9, a character of two bytes
      [] c \in {DigitChar[i] : i \in 1..10} ->
            <<47 + (CHOOSE i \in 1..10 : DigitChar[i] = c)>>

Utf8(s) == Flatten([i \in 1..Len(s) |-> Utf8Char(s[i])])

(***************************************************************************)
(* conf: the configuration module of the package.                         *)
(***************************************************************************)
EMPTY_VALUES == {NoneV, StrV(<<>>), ListV(<<>>)}

\* The ordered allow-list of response field names.
RESPONSE_KEYS == <<"payId", "dttm", "resultCode">>

(***************************************************************************)
(* Keys.  A key file holds the key material of one RSA key pair; the       *)
(* material is named by the pair's number.                                 *)
(***************************************************************************)
KeyPairs == {1, 2}

\* A key reference: the material itself, or the path of a readable file.
KeyRefs == {[path |-> FALSE, id |-> k] : k \in KeyPairs} \cup {[path |-> TRUE, id |-> 1]}

\* The file system: the material the file at a path holds.
FileContent(path_id) == path_id

get_file_data(ref) ==
    IF ref.path THEN [path |-> FALSE, id |-> FileContent(ref.id)] ELSE ref

\* RSA.importKey(material): the key pair.
importKey(material) == material.id

(***************************************************************************)
(* mk_msg_for_sign, sign, verify, mk_payload.                              *)
(***************************************************************************)
\* The local `payload` of mk_msg_for_sign after the cart step.
CartReplaced(payload) ==
    IF HasKey(payload, "cart") /\ Get(payload, "cart") \notin EMPTY_VALUES
    THEN LET cart == Get(payload, "cart").items
             cart_msg == Flatten([i \in 1..Len(cart) |-> DictValues(cart[i])])
         IN SetItem(payload, "cart", StrV(Join(<<"|">>, Rendered(cart_msg))))
    ELSE payload

\* mk_msg_for_sign without line 79: the cart text is stored into the caller's
\* own mapping.
mk_msg_for_sign_nocopy(payload) ==
    LET local == CartReplaced(payload)
    IN [ret |-> Utf8(Join(<<"|">>, Rendered(DictValues(local)))),
        caller |-> local]

\* One call of mk_msg_for_sign: the returned bytes and the caller's mapping as
\* the call leaves it.  The call rebinds `payload` to payload.copy() and stores
\* the cart text into that copy, so the caller's mapping stays the one passed.
mk_msg_for_sign_call(payload) ==
    LET local == CartReplaced(payload)
    IN [ret |-> Utf8(Join(<<"|">>, Rendered(DictValues(local)))),
        caller |-> payload]

mk_msg_for_sign(payload) == mk_msg_for_sign_call(payload).ret

sign(payload, kf) ==
    LET msg == mk_msg_for_sign(payload)
        key == importKey(get_file_data(kf))
    IN SigV(key, msg)

\* verify with a canonical message of its own, which does not flatten the cart.
verify_own_msg(payload, signature, pkf) ==
    LET msg == Utf8(Join(<<"|">>, Rendered(DictValues(payload))))
        key == importKey(get_file_data(pkf))
    IN signature = SigV(key, msg)

verify(payload, signature, pkf) ==
    LET msg == mk_msg_for_sign(payload)
        key == importKey(get_file_data(pkf))
    IN signature = SigV(key, msg)

mk_payload(kf, ps) ==
    LET payload == FromPairs(SelectSeq(ps, LAMBDA p : p[2] \notin EMPTY_VALUES))
    IN SetItem(payload, "signature", sign(payload, kf))

(***************************************************************************)
(* The signing side: inputs.                                               *)
(***************************************************************************)
Cart1 == ListV(<< <<(<<"a", IntV(1)>>), (<<"b", IntV(2)>>)>>,
                  <<(<<"a", IntV(3)>>), (<<"b", IntV(4)>>)>> >>)
Cart2 == ListV(<< <<(<<"name", StrV(<<"a">>)>>), (<<"gift", BoolV(TRUE)>>)>> >>)

Scalars == {StrV(<<"a">>), StrV(<<"E9">>), StrV(<<>>), NoneV, BoolV(TRUE), BoolV(FALSE),
            IntV(12)}

InputPairs ==
    {<<k, v>> : k \in {"a", "signature"}, v \in Scalars}
    \cup {<<"cart", v>> : v \in {Cart1, Cart2, ListV(<<>>), NoneV}}

UniqueKeys(ps) == \A i, j \in 1..Len(ps) : ps[i][1] = ps[j][1] => i = j

\* The sequences of pairs, with unique keys, of at most MaxPairs pairs.
PairSeqs ==
    {ps \in UNION {[1..n -> InputPairs] : n \in 0..MaxPairs} : UniqueKeys(ps)}

NoOut == [sig |-> NoneV, ok |-> FALSE, payload |-> <<>>, msg |-> <<>>, caller |-> <<>>]

NoResponse ==
    [status_code |-> 0, json_ok |-> FALSE, data |-> <<>>,
     has_payload |-> FALSE, payload |-> <<>>,
     has_extensions |-> FALSE, extensions |-> <<>>]

InitSign ==
    /\ op = "none"
    /\ pairs \in PairSeqs
    /\ keyfile \in KeyRefs
    /\ pubkeyfile \in KeyRefs
    /\ out = NoOut
    /\ number = <<>> /\ provider = <<"None", "None">>
    /\ mdata = [none |-> TRUE, len |-> 0]
    /\ mresult = [raised |-> "none", none |-> TRUE, len |-> 0]
    /\ response = NoResponse /\ sent = <<>> /\ raised = "none" /\ trace = <<>>

UnchangedRest ==
    UNCHANGED <<pairs, keyfile, pubkeyfile, number, provider, mdata, mresult,
                response, sent, raised, trace>>

\* sign(payload, keyfile) followed by verify(payload, signature, pubkeyfile).
SignVerify ==
    /\ op = "none"
    /\ op' = "sign_verify"
    /\ LET signature == sign(pairs, keyfile)
       IN out' = [NoOut EXCEPT !.sig = signature,
                               !.ok = verify(pairs, signature, pubkeyfile)]
    /\ UnchangedRest

MkPayload ==
    /\ op = "none"
    /\ op' = "mk_payload"
    /\ out' = [NoOut EXCEPT !.payload = mk_payload(keyfile, pairs)]
    /\ UnchangedRest

MkMsgForSign ==
    /\ op = "none"
    /\ op' = "mk_msg_for_sign"
    /\ LET r == mk_msg_for_sign_call(pairs)
       IN out' = [NoOut EXCEPT !.msg = r.ret, !.caller = r.caller]
    /\ UnchangedRest

NextSign == SignVerify \/ MkPayload \/ MkMsgForSign

SpecSign == InitSign /\ [][NextSign]_vars

(***************************************************************************)
(* get_card_provider.  A pattern is a set of alternatives; an alternative  *)
(* is a sequence of character classes, anchored at its end or not.         *)
(* rx.match anchors every alternative at the start of the text.            *)
(***************************************************************************)
D == {DigitChar[i] : i \in 1..10}

Rep(c, n) == [i \in 1..n |-> c]

Alt(cls, end) == [cls |-> cls, end |-> end]

\* rx.match(text) is not None
Match(rx, text) ==
    \E a \in rx :
        /\ Len(a.cls) <= Len(text)
        /\ \A i \in 1..Len(a.cls) : text[i] \in a.cls[i]
        /\ a.end => Len(text) = Len(a.cls)

\* conf.CARD_PROVIDER_* and conf.CARD_PROVIDERS
CARD_PROVIDER_VISA == "VISA"
CARD_PROVIDER_AMEX == "AMEX"
CARD_PROVIDER_DINERS == "DINERS"
CARD_PROVIDER_JCB == "JCB"
CARD_PROVIDER_MC == "MC"

CARD_PROVIDERS(provider_id) ==
    CASE provider_id = CARD_PROVIDER_VISA   -> "Visa"
      [] provider_id = CARD_PROVIDER_AMEX   -> "American Express"
      [] provider_id = CARD_PROVIDER_DINERS -> "Diners Club"
      [] provider_id = CARD_PROVIDER_JCB    -> "JCB"
      [] provider_id = CARD_PROVIDER_MC     -> "MasterCard"

\* ^4\d{5}$
RxVisa == {Alt(<<{"4"}>> \o Rep(D, 5), TRUE)}

\* ^3[47]\d{4}$
RxAmex == {Alt(<<{"3"}, {"4", "7"}>> \o Rep(D, 4), TRUE)}

\* ^3(?:0[0-5]|[68][0-9])[0-9]{4}$
RxDiners ==
    {Alt(<<{"3"}, {"0"}, {"0", "1", "2", "3", "4", "5"}>> \o Rep(D, 4), TRUE),
     Alt(<<{"3"}, {"6", "8"}, D>> \o Rep(D, 4), TRUE)}

\* ^(?:2131|1800|35[0-9]{2})[0-9]{2}$
RxJcb ==
    {Alt(<<{"2"}, {"1"}, {"3"}, {"1"}>> \o Rep(D, 2), TRUE),
     Alt(<<{"1"}, {"8"}, {"0"}, {"0"}>> \o Rep(D, 2), TRUE),
     Alt(<<{"3"}, {"5"}, D, D>> \o Rep(D, 2), TRUE)}

\* ^5[1-5][0-9]{4}|222[1-9][0-9]{2}|22[3-9][0-9]{4}|2[3-6][0-9]{5}|27[01][0-9]{4}|2720[0-9]{2}$
RxMc ==
    {Alt(<<{"5"}, {"1", "2", "3", "4", "5"}>> \o Rep(D, 4), FALSE),
     Alt(<<{"2"}, {"2"}, {"2"}, D \ {"0"}>> \o Rep(D, 2), FALSE),
     Alt(<<{"2"}, {"2"}, D \ {"0", "1", "2"}>> \o Rep(D, 4), FALSE),
     Alt(<<{"2"}, {"3", "4", "5", "6"}>> \o Rep(D, 5), FALSE),
     Alt(<<{"2"}, {"7"}, {"0", "1"}>> \o Rep(D, 4), FALSE),
     Alt(<<{"2"}, {"7"}, {"2"}, {"0"}>> \o Rep(D, 2), TRUE)}

PROVIDERS ==
    << <<CARD_PROVIDER_VISA, RxVisa>>,
       <<CARD_PROVIDER_AMEX, RxAmex>>,
       <<CARD_PROVIDER_DINERS, RxDiners>>,
       <<CARD_PROVIDER_JCB, RxJcb>>,
       <<CARD_PROVIDER_MC, RxMc>> >>

\* text[:n]
Slice(text, n) == SubSeq(text, 1, IF Len(text) < n THEN Len(text) ELSE n)

get_card_provider(long_masked_number) ==
    LET hits == {i \in 1..Len(PROVIDERS) : Match(PROVIDERS[i][2], Slice(long_masked_number, 6))}
    IN IF hits = {} THEN <<"None", "None">>
       ELSE LET first == CHOOSE i \in hits : \A j \in hits : i <= j
            IN <<PROVIDERS[first][1], CARD_PROVIDERS(PROVIDERS[first][1])>>

\* The last two digits of a prefix are drawn from these: every pattern takes
\* any digit there.
TailDigits == {"0", "9"}

\* What follows the first six digits of a card number.
Suffixes == {<<"*", "*">>, <<"0", "*">>}

CardNumbers ==
    {<<a, b, c, d, e, f>> \o x : a \in D, b \in D, c \in D, d \in D,
                                 e \in TailDigits, f \in TailDigits, x \in Suffixes}

InitCard ==
    /\ op = "none"
    /\ number \in CardNumbers
    /\ provider = <<"None", "None">>
    /\ pairs = <<>> /\ keyfile = [path |-> FALSE, id |-> 1]
    /\ pubkeyfile = [path |-> FALSE, id |-> 1] /\ out = NoOut
    /\ mdata = [none |-> TRUE, len |-> 0]
    /\ mresult = [raised |-> "none", none |-> TRUE, len |-> 0]
    /\ response = NoResponse /\ sent = <<>> /\ raised = "none" /\ trace = <<>>

GetCardProvider ==
    /\ op = "none"
    /\ op' = "get_card_provider"
    /\ provider' = get_card_provider(number)
    /\ UNCHANGED <<pairs, keyfile, pubkeyfile, out, number, mdata, mresult,
                   response, sent, raised, trace>>

NextCard == GetCardProvider

SpecCard == InitCard /\ [][NextCard]_vars

(***************************************************************************)
(* encode_merchant_data.  Data is modelled by its length in bytes, base64  *)
(* text by its length in characters.                                       *)
(***************************************************************************)
\* len(b64encode(data)): four characters for every group of three bytes, the
\* last group padded.
B64Len(n) == 4 * ((n + 2) \div 3)

MerchantDataLimit == 255

\* encode_merchant_data with the comparison `> 256`.
encode_merchant_data_off(md) ==
    IF ~md.none
    THEN IF B64Len(md.len) > MerchantDataLimit + 1
         THEN [raised |-> "ValueError", none |-> FALSE, len |-> 0]
         ELSE [raised |-> "none", none |-> FALSE, len |-> B64Len(md.len)]
    ELSE [raised |-> "none", none |-> TRUE, len |-> 0]

encode_merchant_data(md) ==
    IF ~md.none
    THEN IF B64Len(md.len) > MerchantDataLimit
         THEN [raised |-> "ValueError", none |-> FALSE, len |-> 0]
         ELSE [raised |-> "none", none |-> FALSE, len |-> B64Len(md.len)]
    ELSE [raised |-> "none", none |-> TRUE, len |-> 0]

InitMerchant ==
    /\ op = "none"
    /\ mdata \in {[none |-> TRUE, len |-> 0]} \cup {[none |-> FALSE, len |-> n] : n \in 0..MaxDataLen}
    /\ mresult = [raised |-> "none", none |-> TRUE, len |-> 0]
    /\ pairs = <<>> /\ keyfile = [path |-> FALSE, id |-> 1]
    /\ pubkeyfile = [path |-> FALSE, id |-> 1] /\ out = NoOut
    /\ number = <<>> /\ provider = <<"None", "None">>
    /\ response = NoResponse /\ sent = <<>> /\ raised = "none" /\ trace = <<>>

EncodeMerchantData ==
    /\ op = "none"
    /\ op' = "encode_merchant_data"
    /\ mresult' = encode_merchant_data(mdata)
    /\ UNCHANGED <<pairs, keyfile, pubkeyfile, out, number, provider, mdata,
                   response, sent, raised, trace>>

NextMerchant == EncodeMerchantData

SpecMerchant == InitMerchant /\ [][NextMerchant]_vars

(***************************************************************************)
(* dttm_decode: datetime.strptime(value, "%Y%m%d%H%M%S").  The model        *)
(* covers text that is 14 characters long or holds a character that is no  *)
(* digit; digits-only text of another length is outside it.                *)
(***************************************************************************)
Num(s, from, to) ==
    LET F[i \in (from - 1)..to] ==
            IF i = from - 1 THEN 0
            ELSE 10 * F[i - 1] + ((CHOOSE j \in 1..10 : DigitChar[j] = s[i]) - 1)
    IN F[to]

IsLeap(y) == (y % 4 = 0 /\ y % 100 # 0) \/ y % 400 = 0

DaysIn(y, mo) ==
    IF mo = 2 THEN (IF IsLeap(y) THEN 29 ELSE 28)
    ELSE IF mo \in {4, 6, 9, 11} THEN 30 ELSE 31

dttm_decode(value) ==
    IF value.t # "str" THEN [err |-> "TypeError", value |-> NoneV]
    ELSE IF Len(value.s) # 14 \/ \E i \in 1..Len(value.s) : value.s[i] \notin D
    THEN [err |-> "ValueError", value |-> NoneV]
    ELSE LET y  == Num(value.s, 1, 4)
             mo == Num(value.s, 5, 6)
             d  == Num(value.s, 7, 8)
             h  == Num(value.s, 9, 10)
             mi == Num(value.s, 11, 12)
             sc == Num(value.s, 13, 14)
         IN IF /\ y >= 1 /\ mo \in 1..12 /\ d \in 1..DaysIn(y, mo)
               /\ h <= 23 /\ mi <= 59 /\ sc <= 59
            THEN [err |-> "none", value |-> DateTimeV(<<y, mo, d, h, mi, sc>>)]
            ELSE [err |-> "ValueError", value |-> NoneV]

(***************************************************************************)
(* validate_response.                                                      *)
(***************************************************************************)
MaskClnRP == StrV(<<"m", "a", "s", "k", "C", "l", "n", "R", "P">>)

\* Lines 127-131 iterating over the raw body instead of the allow-list.
RestrictedPayload_raw_order(data) ==
    SelectSeq(data, LAMBDA p : \E i \in 1..Len(RESPONSE_KEYS) : RESPONSE_KEYS[i] = p[1])

\* Lines 127-131: the allow-listed keys present in data, in allow-list order.
RestrictedPayload(data) ==
    LET F[n \in 0..Len(RESPONSE_KEYS)] ==
            IF n = 0 THEN <<>>
            ELSE IF HasKey(data, RESPONSE_KEYS[n])
                 THEN SetItem(F[n - 1], RESPONSE_KEYS[n], Get(data, RESPONSE_KEYS[n]))
                 ELSE F[n - 1]
    IN F[Len(RESPONSE_KEYS)]

\* Line 144 with 'dttm' listed before 'extension'.
maskclnrp_keys_swapped == <<"dttm", "extension", "maskedCln", "expiration", "longMaskedCln">>

maskclnrp_keys == <<"extension", "dttm", "maskedCln", "expiration", "longMaskedCln">>

\* Lines 147-150: the restricted mapping of one extension entry.
ExtRestricted(one) ==
    LET F[n \in 0..Len(maskclnrp_keys)] ==
            IF n = 0 THEN <<>>
            ELSE IF HasKey(one, maskclnrp_keys[n])
                 THEN SetItem(F[n - 1], maskclnrp_keys[n], Get(one, maskclnrp_keys[n]))
                 ELSE F[n - 1]
    IN F[Len(maskclnrp_keys)]

\* Line 133 with the result of verify ignored.
VerifyFailed_never(payload, signature, key) == FALSE

\* Line 133: `not verify(payload, signature, key)`.
VerifyFailed(payload, signature, key) == ~verify(payload, signature, key)

\* Lines 145-154: the loop over data['extensions'], from the empty list of
\* line 139.  nverify counts the calls of verify.
ExtLoop(items, key) ==
    LET F[n \in 0..Len(items)] ==
            IF n = 0 THEN [raised |-> "none", extensions |-> <<>>, nverify |-> 0]
            ELSE LET prev == F[n - 1]
                     one == items[n]
                 IN IF prev.raised # "none" THEN prev
                    ELSE IF ~HasKey(one, "extension") THEN [prev EXCEPT !.raised = "KeyError"]
                    ELSE IF Get(one, "extension") # MaskClnRP THEN prev
                    ELSE IF ~HasKey(one, "signature") THEN [prev EXCEPT !.raised = "KeyError"]
                    ELSE IF verify(ExtRestricted(one), Get(one, "signature"), key)
                         THEN [prev EXCEPT !.extensions = Append(@, ExtRestricted(one)),
                                           !.nverify = @ + 1]
                         ELSE [prev EXCEPT
                                 !.raised = "CsobVerifyError: Cannot verify masked card extension response",
                                 !.nverify = @ + 1]
    IN F[Len(items)]

\* The outcome of a call: the response object as the call leaves it, the
\* exception that left it, the steps performed, and the mapping handed to
\* verify with verify's answer.
Outcome(resp, exc, steps, payload, ok) ==
    [response |-> resp, raised |-> exc, trace |-> steps, verified |-> payload, ok |-> ok]

\* validate_response with the timestamp decoded before the signature is checked.
validate_response_dttm_first(resp, key) ==
    IF resp.status_code >= 400
    THEN Outcome(resp, "HTTPError", <<"raise_for_status">>, <<>>, FALSE)
    ELSE IF ~resp.json_ok
    THEN Outcome(resp, "JSONDecodeError", <<"raise_for_status", "json">>, <<>>, FALSE)
    ELSE IF ~HasKey(resp.data, "signature")
    THEN Outcome(resp, "KeyError", <<"raise_for_status", "json", "pop_signature">>, <<>>, FALSE)
    ELSE
    LET signature == Get(resp.data, "signature")
        data == Pop(resp.data, "signature")
        payload == RestrictedPayload(data)
        decoded == dttm_decode(Get(payload, "dttm"))
        steps4 == <<"raise_for_status", "json", "pop_signature">>
                  \o (IF HasKey(payload, "dttm") THEN <<"dttm_decode">> ELSE <<>>)
        steps5 == Append(steps4, "verify")
    IN  IF HasKey(payload, "dttm") /\ decoded.err # "none"
        THEN Outcome(resp, decoded.err, steps4, <<>>, FALSE)
        ELSE IF VerifyFailed(payload, signature, key)
        THEN Outcome(resp, "CsobVerifyError: Cannot verify response", steps5, payload, FALSE)
        ELSE
        LET payload2 == IF HasKey(payload, "dttm")
                        THEN SetItem(payload, "dttime", decoded.value) ELSE payload
            ext == IF HasKey(data, "extensions")
                   THEN ExtLoop(Get(data, "extensions").items, key)
                   ELSE [raised |-> "none", extensions |-> <<>>, nverify |-> 0]
            resp2 == [resp EXCEPT !.has_extensions = TRUE, !.extensions = ext.extensions,
                                  !.has_payload = TRUE, !.payload = payload2]
        IN Outcome(resp2, ext.raised,
                   Append(steps5, "attach") \o Rep("verify_ext", ext.nverify), payload, TRUE)

validate_response(resp, key) ==
    \* line 123: response.raise_for_status()
    IF resp.status_code >= 400
    THEN Outcome(resp, "HTTPError", <<"raise_for_status">>, <<>>, FALSE)
    \* line 125: data = response.json()
    ELSE IF ~resp.json_ok
    THEN Outcome(resp, "JSONDecodeError", <<"raise_for_status", "json">>, <<>>, FALSE)
    \* line 126: signature = data.pop('signature')
    ELSE IF ~HasKey(resp.data, "signature")
    THEN Outcome(resp, "KeyError", <<"raise_for_status", "json", "pop_signature">>, <<>>, FALSE)
    ELSE
    LET signature == Get(resp.data, "signature")
        data == Pop(resp.data, "signature")
        payload == RestrictedPayload(data)
        steps4 == <<"raise_for_status", "json", "pop_signature", "verify">>
    IN  \* lines 133-134
        IF VerifyFailed(payload, signature, key)
        THEN Outcome(resp, "CsobVerifyError: Cannot verify response", steps4, payload, FALSE)
        ELSE
        \* lines 136-137
        LET decoded == dttm_decode(Get(payload, "dttm"))
            steps5 == IF HasKey(payload, "dttm") THEN Append(steps4, "dttm_decode") ELSE steps4
        IN  IF HasKey(payload, "dttm") /\ decoded.err # "none"
            THEN Outcome(resp, decoded.err, steps5, payload, TRUE)
            ELSE
            LET payload2 == IF HasKey(payload, "dttm")
                            THEN SetItem(payload, "dttime", decoded.value) ELSE payload
                \* lines 143-154
                ext == IF HasKey(data, "extensions")
                       THEN ExtLoop(Get(data, "extensions").items, key)
                       ELSE [raised |-> "none", extensions |-> <<>>, nverify |-> 0]
                \* lines 139-140, then the appends of line 152: the attributes
                \* are set before the loop runs and stay set when it raises
                resp2 == [resp EXCEPT !.has_extensions = TRUE, !.extensions = ext.extensions,
                                      !.has_payload = TRUE, !.payload = payload2]
            IN Outcome(resp2, ext.raised,
                       Append(steps5, "attach") \o Rep("verify_ext", ext.nverify),
                       payload, TRUE)

(***************************************************************************)
(* Responses handed to validate_response.                                  *)
(***************************************************************************)
DttmText == <<"2", "0", "1", "9", "0", "4", "0", "4", "0", "9", "1", "9", "2", "6">>

BodyValues == {StrV(<<"a">>), StrV(DttmText)}

BodyKeys == {"payId", "dttm", "other"}

\* The reference to the gateway's key material, as the merchant holds it.
GatewayPub == [path |-> FALSE, id |-> 1]
\* The key material of somebody else.
ForgerKey == [path |-> FALSE, id |-> 2]

\* The field mappings of n fields, in any raw order.
Bodies(n) == {d \in [1..n -> BodyKeys \X BodyValues] : UniqueKeys(d)}

\* The mappings the gateway signs: allow-listed fields in allow-list order.
SentMappings ==
    {d \in UNION {[1..n -> {"payId", "dttm"} \X BodyValues] : n \in 0..2} :
        UniqueKeys(d) /\ d = RestrictedPayload(d)}

\* An extension entry as the gateway signs it.
SignedExt(fields) ==
    Append(fields, <<"signature", sign(ExtRestricted(fields), GatewayPub)>>)

ExtGood1 == SignedExt(<< <<"maskedCln", StrV(<<"a">>)>>, <<"extension", MaskClnRP>> >>)
ExtGood2 == SignedExt(<< <<"extension", MaskClnRP>>, <<"other", StrV(<<"a">>)>>,
                         <<"dttm", StrV(DttmText)>> >>)
\* ExtGood1 with its card number altered after signing.
ExtBad == SetItem(ExtGood1, "maskedCln", StrV(<<"b">>))
\* An entry of another type, with no valid signature.
ExtOther == << <<"extension", StrV(<<"a">>)>>, <<"signature", StrV(<<"a">>)>> >>

ExtMenu == {ExtGood1, ExtGood2, ExtBad, ExtOther}

ExtLists(n) == [1..n -> ExtMenu]

InitValidate ==
    /\ op = "none"
    /\ sent \in SentMappings
    /\ pubkeyfile = GatewayPub
    /\ \E nf \in 0..MaxSize : \E ne \in 0..(MaxSize - nf) :
       \E fields \in Bodies(nf), exts \in ExtLists(ne), has_ext \in BOOLEAN,
          sig \in {"gateway", "forged", "missing"}, status \in {200, 500}, json \in BOOLEAN :
          /\ (ne > 0) => has_ext
          /\ response =
                [NoResponse EXCEPT
                    !.status_code = status,
                    !.json_ok = json,
                    !.data = fields
                        \o (IF has_ext THEN << <<"extensions", ListV(exts)>> >> ELSE <<>>)
                        \o (CASE sig = "gateway" -> << <<"signature", sign(sent, GatewayPub)>> >>
                              [] sig = "forged"  -> << <<"signature", sign(sent, ForgerKey)>> >>
                              [] sig = "missing" -> <<>>)]
    /\ raised = "none" /\ trace = <<>>
    /\ pairs = <<>> /\ keyfile = [path |-> FALSE, id |-> 1] /\ out = NoOut
    /\ number = <<>> /\ provider = <<"None", "None">>
    /\ mdata = [none |-> TRUE, len |-> 0]
    /\ mresult = [raised |-> "none", none |-> TRUE, len |-> 0]

ValidateResponse ==
    /\ op = "none"
    /\ op' = "validate_response"
    /\ LET r == validate_response(response, pubkeyfile)
       IN /\ response' = r.response
          /\ raised' = r.raised
          /\ trace' = r.trace
          /\ out' = [NoOut EXCEPT !.payload = r.verified, !.ok = r.ok]
    /\ UNCHANGED <<pairs, keyfile, pubkeyfile, number, provider, mdata, mresult, sent>>

NextValidate == ValidateResponse

SpecValidate == InitValidate /\ [][NextValidate]_vars

(***************************************************************************)
DigitOf(c) == (CHOOSE i \in 1..10 : DigitChar[i] = c) - 1

\* The first six digits of the card number, as a number.
Bin ==
    LET F[n \in 0..6] == IF n = 0 THEN 0 ELSE 10 * F[n - 1] + DigitOf(number[n])
    IN F[6]

\* The provider of a BIN by the ranges the table is written for.
ClaimProvider(bin) ==
    LET In(lo, hi) == lo <= bin /\ bin <= hi
    IN CASE In(400000, 499999) -> <<"VISA", "Visa">>
         [] In(340000, 349999) \/ In(370000, 379999) -> <<"AMEX", "American Express">>
         [] In(300000, 305999) \/ In(360000, 369999) \/ In(380000, 389999) ->
               <<"DINERS", "Diners Club">>
         [] In(213100, 213199) \/ In(180000, 180099) \/ In(350000, 359999) -> <<"JCB", "JCB">>
         [] In(510000, 559999) \/ In(222100, 272099) -> <<"MC", "MasterCard">>
         [] OTHER -> <<"None", "None">>

\* C8 (as claimed): get_card_provider returns, for every card number, the
\* provider whose BIN range holds the number's first six digits, and the pair
\* (None, None) for every other prefix.
C8_BinRanges ==
    op = "get_card_provider" => provider = ClaimProvider(Bin)

(***************************************************************************)
(* Claims about the merchant data codec (under SpecMerchant).              *)
(***************************************************************************)
\* C6 (as claimed): present data gives its base64 text when that has at most
\* 255 characters and ValueError exactly when it has more; 190 raw bytes
\* encode successfully; None is returned unchanged.
C6_Limit190 ==
    op = "encode_merchant_data" =>
        /\ mdata.none => (mresult.none /\ mresult.raised = "none")
        /\ ~mdata.none =>
              /\ mresult.raised = "ValueError" <=> 4 * ((mdata.len + 2) \div 3) > 255
              /\ mresult.raised = "none" =>
                    (~mresult.none /\ mresult.len = 4 * ((mdata.len + 2) \div 3))
              /\ mdata.len = 190 => (mresult.raised = "none" /\ mresult.len <= 255)

\* C6 (amended): present data gives its base64 text when that has at most 255
\* characters and ValueError exactly when it has more, never truncating; 189
\* raw bytes are the most that encode (252 characters) and 190 raw bytes give
\* 256 characters and ValueError; None is returned unchanged.
C6_Limit189 ==
    op = "encode_merchant_data" =>
        /\ mdata.none => (mresult.none /\ mresult.raised = "none")
        /\ ~mdata.none =>
              /\ mresult.raised = "ValueError" <=> 4 * ((mdata.len + 2) \div 3) > 255
              /\ mresult.raised = "none" =>
                    (~mresult.none /\ mresult.len = 4 * ((mdata.len + 2) \div 3))
              /\ mdata.len <= 189 <=> mresult.raised = "none"
              /\ mdata.len = 189 => mresult.len = 252
              /\ mdata.len = 190 => mresult.raised = "ValueError"

\* C6 witness: 190 raw bytes were encoded and the call raised.
C6_Witness ==
    op = "encode_merchant_data" /\ ~mdata.none /\ mdata.len = 190
    /\ mresult.raised = "ValueError"

(***************************************************************************)
(* Claims about the signing side (under SpecSign).                         *)
(***************************************************************************)
NoEmptyValues(d) == \A i \in 1..Len(d) : d[i][2] \notin EMPTY_VALUES

SameKeyPair == importKey(get_file_data(keyfile)) = importKey(get_file_data(pubkeyfile))

\* C1: round trip.  For a key pair and an ordered field mapping with no empty
\* values, verifying the mapping against the signature that sign made of it
\* with the pair's private key, under the pair's public key, gives true.
C1_RoundTrip ==
    (op = "sign_verify" /\ SameKeyPair /\ NoEmptyValues(pairs)) => out.ok

\* C1 witness: a round trip over a mapping with a non-empty cart and a boolean.
C1_Witness ==
    /\ op = "sign_verify" /\ SameKeyPair /\ NoEmptyValues(pairs)
    /\ HasKey(pairs, "cart")
    /\ \E i \in 1..Len(pairs) : pairs[i][2].t = "bool"
    /\ out.ok

\* The text a line item list contributes: every value of every item, items in
\* cart order, each item's values in its own order, joined by '|'.
RECURSIVE ClaimItemValues(_)
ClaimItemValues(items) ==
    IF items = <<>> THEN <<>>
    ELSE [i \in 1..Len(Head(items)) |-> Head(items)[i][2]] \o ClaimItemValues(Tail(items))

ClaimRender(v) ==
    IF v.t = "bool" THEN (IF v.b THEN <<"t", "r", "u", "e">> ELSE <<"f", "a", "l", "s", "e">>)
    ELSE PyStr(v)

\* The rendered values with a '|' between each two neighbours.
ClaimBar(vals) ==
    LET F[n \in 0..Len(vals)] ==
            IF n = 0 THEN <<>>
            ELSE IF n = 1 THEN ClaimRender(vals[1])
            ELSE F[n - 1] \o <<"|">> \o ClaimRender(vals[n])
    IN F[Len(vals)]

\* The text of one entry of the mapping: a present non-empty cart is the joined
\* values of its line items, any other value is rendered by the rule.
ClaimEntry(p) ==
    IF p[1] = "cart" /\ p[2] \notin EMPTY_VALUES
    THEN StrV(ClaimBar(ClaimItemValues(p[2].items)))
    ELSE p[2]

\* The canonical message of all the entries of d, none filtered out.
ClaimMsgAll(d) == Utf8(ClaimBar([i \in 1..Len(d) |-> ClaimEntry(d[i])]))

\* The canonical message of d after empty-value filtering.
ClaimMsgFiltered(d) == ClaimMsgAll(SelectSeq(d, LAMBDA p : p[2] \notin EMPTY_VALUES))

\* C5 (as claimed): mk_payload returns the pairs with non-empty values in their
\* sequence order followed by 'signature' as the final entry, whose value signs
\* the canonical message of exactly the preceding entries.
C5_SignatureLast ==
    op = "mk_payload" =>
        LET kept == SelectSeq(pairs, LAMBDA p : p[2] \notin EMPTY_VALUES)
            key == importKey(get_file_data(keyfile))
        IN out.payload = Append(kept, <<"signature", SigV(key, ClaimMsgAll(kept))>>)

\* C7 (as claimed): mk_msg_for_sign returns the UTF-8 bytes of the values joined
\* by '|' after empty-value filtering, and leaves the caller's mapping unchanged.
C7_FilteredJoin ==
    op = "mk_msg_for_sign" =>
        /\ out.msg = ClaimMsgFiltered(pairs)
        /\ out.caller = pairs

\* C7 (amended): mk_msg_for_sign filters nothing: it returns the UTF-8 bytes of
\* all the mapping's values joined by '|' in insertion order, a boolean as
\* 'true'/'false', any other value as its string form (an empty string as an
\* empty segment, None as 'None'), a present non-empty cart replaced at its
\* position by the '|'-join of its line items' values; the caller's mapping is
\* left unchanged.
C7_JoinAll ==
    op = "mk_msg_for_sign" =>
        /\ out.msg = ClaimMsgAll(pairs)
        /\ out.caller = pairs

\* C7 witness: the cart of the example alone gives '1|2|3|4'.
C7_Witness ==
    /\ op = "mk_msg_for_sign"
    /\ pairs = << <<"cart", Cart1>> >>
    /\ out.msg = <<49, 124, 50, 124, 51, 124, 52>>
    /\ out.caller = pairs

(***************************************************************************)
(* Claims about validate_response (under SpecValidate).                    *)
(***************************************************************************)
Validated == op = "validate_response"

TransportOk == response.status_code < 400 /\ response.json_ok

ParentError == "CsobVerifyError: Cannot verify response"
ExtensionError == "CsobVerifyError: Cannot verify masked card extension response"

\* The fields of the body: all its entries but the signature and the extensions.
BodyFields == SelectSeq(response.data, LAMBDA p : p[1] \notin {"signature", "extensions"})

AsSet(d) == {d[i] : i \in 1..Len(d)}

\* The signature a key pair makes of a canonical message.
ClaimSig(ref, d) == SigV(ref.id, ClaimMsgAll(d))

\* The body carries the signature the gateway made of the mapping it sent.
GatewaySigned ==
    HasKey(response.data, "signature")
    /\ Get(response.data, "signature") = ClaimSig(GatewayPub, sent)

\* The entries of d whose keys are in the list, in the order of the list.
ClaimRestricted(list, d) ==
    LET present == SelectSeq(list, LAMBDA k : HasKey(d, k))
    IN [i \in 1..Len(present) |-> <<present[i], Get(d, present[i])>>]

\* C2 (as claimed): when the body carries the gateway's signature and differs
\* from the mapping the gateway signed, in a value or in its set of fields,
\* verify returns false and the call raises CsobVerifyError.
C2_AnyDifference ==
    (Validated /\ TransportOk /\ GatewaySigned /\ AsSet(BodyFields) # AsSet(sent))
        => (~out.ok /\ raised = ParentError)

\* C2 (amended): when the allow-listed fields of the body, taken in allow-list
\* order, give a canonical message other than the one the gateway signed, or
\* the signature is not one the gateway's key made of that message, verify
\* returns false, the call raises CsobVerifyError and no payload is attached;
\* a response returned as validated carries the gateway's signature of the
\* canonical message of its allow-listed fields.
C2_MessageDifference ==
    (Validated /\ TransportOk /\ HasKey(response.data, "signature")) =>
        /\ (GatewaySigned
              /\ ClaimMsgAll(ClaimRestricted(RESPONSE_KEYS, response.data)) # ClaimMsgAll(sent))
             => (~out.ok /\ raised = ParentError /\ ~response.has_payload)
        /\ (Get(response.data, "signature")
               # ClaimSig(GatewayPub, ClaimRestricted(RESPONSE_KEYS, response.data)))
             => (~out.ok /\ raised = ParentError /\ ~response.has_payload)
        /\ raised = "none" =>
               Get(response.data, "signature")
                 = ClaimSig(GatewayPub, ClaimRestricted(RESPONSE_KEYS, response.data))

\* C2 witness: a field the gateway signed was altered, and the call raised.
C2_Witness ==
    /\ Validated /\ TransportOk /\ GatewaySigned
    /\ sent = << <<"payId", StrV(<<"a">>)>> >>
    /\ BodyFields = << <<"payId", StrV(DttmText)>> >>
    /\ raised = ParentError /\ ~response.has_payload

\* C3 (as claimed): whenever validate_response raises, the response object
\* carries no attached payload and no attached extensions list.
C3_NothingAttachedOnRaise ==
    (Validated /\ raised # "none") => (~response.has_payload /\ ~response.has_extensions)

\* C4: the mapping handed to verify holds exactly the allow-listed keys present
\* in the raw body, each with the body's value, in allow-list order; it holds
\* neither the signature nor 'dttime'; 'dttime' is in the attached payload,
\* after the verified entries, exactly when 'dttm' is present.
C4_RestrictedMapping ==
    (Validated /\ \E i \in 1..Len(trace) : trace[i] = "verify") =>
        /\ out.payload = ClaimRestricted(RESPONSE_KEYS, response.data)
        /\ Keys(out.payload) \subseteq {RESPONSE_KEYS[i] : i \in 1..Len(RESPONSE_KEYS)}
        /\ "signature" \notin Keys(out.payload)
        /\ "dttime" \notin Keys(out.payload)
        /\ response.has_payload =>
              /\ out.ok
              /\ HasKey(response.payload, "dttime") <=> HasKey(response.data, "dttm")
              /\ ~HasKey(response.data, "dttm") => response.payload = out.payload
              /\ HasKey(response.data, "dttm") =>
                    /\ Get(response.data, "dttm") = StrV(DttmText)
                    /\ response.payload =
                         Append(out.payload, <<"dttime", DateTimeV(<<2019, 4, 4, 9, 19, 26>>)>>)

\* C4 witness: a validated body that lists 'dttm' before 'payId'; the verified
\* mapping lists 'payId' first.
C4_Witness ==
    /\ Validated /\ raised = "none"
    /\ BodyFields = << <<"dttm", StrV(DttmText)>>, <<"payId", StrV(<<"a">>)>> >>
    /\ out.payload = << <<"payId", StrV(<<"a">>)>>, <<"dttm", StrV(DttmText)>> >>
    /\ HasKey(response.payload, "dttime")

ClaimMaskKeys == <<"extension", "dttm", "maskedCln", "expiration", "longMaskedCln">>

\* The extension entries of the body, and those of the masked-card type.
BodyExtensions ==
    IF HasKey(response.data, "extensions") THEN Get(response.data, "extensions").items ELSE <<>>

MaskEntries == SelectSeq(BodyExtensions, LAMBDA e : Get(e, "extension") = MaskClnRP)

\* The entry carries the gateway's signature of its own allow-listed fields.
ExtValid(e) == Get(e, "signature") = ClaimSig(GatewayPub, ClaimRestricted(ClaimMaskKeys, e))

\* The masked-card entries before the first one whose signature is invalid.
ValidPrefix ==
    LET n == IF \A i \in 1..Len(MaskEntries) : ExtValid(MaskEntries[i]) THEN Len(MaskEntries)
             ELSE (CHOOSE i \in 1..Len(MaskEntries) :
                      /\ ~ExtValid(MaskEntries[i])
                      /\ \A j \in 1..(i - 1) : ExtValid(MaskEntries[j])) - 1
    IN [i \in 1..n |-> ClaimRestricted(ClaimMaskKeys, MaskEntries[i])]

\* C9: once the parent has verified (and its timestamp decoded), every entry
\* of type 'maskClnRP' is verified with the same key against its own signature
\* over its own allow-listed fields in their fixed order; an invalid one raises
\* the extension-specific error, which is raised only under a valid parent; on
\* success the extensions list is the restricted mappings of the maskClnRP
\* entries in body order, entries of another type never being added.
C9_ExtensionIndependence ==
    Validated =>
        /\ raised = ExtensionError => out.ok
        /\ (\E i \in 1..Len(trace) : trace[i] = "attach") =>
              /\ response.has_extensions
              /\ response.extensions = ValidPrefix
              /\ IF \A i \in 1..Len(MaskEntries) : ExtValid(MaskEntries[i])
                 THEN raised = "none"
                 ELSE raised = ExtensionError /\ raised # ParentError

\* C9 witness: a valid parent with a valid masked-card entry followed by an
\* invalid one raises the extension-specific error.
C9_Witness ==
    /\ Validated /\ out.ok
    /\ BodyExtensions = <<ExtGood2, ExtBad>>
    /\ raised = ExtensionError

Rank(step) ==
    CASE step = "raise_for_status" -> 1
      [] step = "json"             -> 2
      [] step = "pop_signature"    -> 3
      [] step = "verify"           -> 4
      [] step = "dttm_decode"      -> 5
      [] step = "attach"           -> 6
      [] step = "verify_ext"       -> 7

\* C10: the checks run in the order HTTP status, JSON decoding, presence of
\* the signature, parent signature, 'dttm' decoding, extension signatures, and
\* the call fails with the error of the first that fails: a failing status is
\* followed by no other step, and 'dttm' is decoded and extensions examined
\* only after the parent has verified; no step but the extension check runs
\* twice.
C10_CheckOrder ==
    Validated =>
        LET restricted == ClaimRestricted(RESPONSE_KEYS, response.data)
            sig_ok == Get(response.data, "signature") = ClaimSig(GatewayPub, restricted)
            dttm_bad == HasKey(restricted, "dttm")
                        /\ dttm_decode(Get(restricted, "dttm")).err # "none"
            ext_bad == \E i \in 1..Len(MaskEntries) : ~ExtValid(MaskEntries[i])
        IN /\ raised =
                (IF response.status_code >= 400 THEN "HTTPError"
                 ELSE IF ~response.json_ok THEN "JSONDecodeError"
                 ELSE IF ~HasKey(response.data, "signature") THEN "KeyError"
                 ELSE IF ~sig_ok THEN ParentError
                 ELSE IF dttm_bad THEN "ValueError"
                 ELSE IF ext_bad THEN ExtensionError
                 ELSE "none")
           /\ response.status_code >= 400 => trace = <<"raise_for_status">>
           /\ \A i, j \in 1..Len(trace) :
                 i < j => /\ Rank(trace[i]) <= Rank(trace[j])
                          /\ Rank(trace[i]) = Rank(trace[j]) => trace[i] = "verify_ext"
           /\ \A i \in 1..Len(trace) : trace[i] \in {"dttm_decode", "verify_ext"} => out.ok

\* C10 witness: a response with a failing status and a forged signature gives
\* the transport error, and nothing after the status check ran.
C10_Witness ==
    /\ Validated
    /\ response.status_code >= 400
    /\ HasKey(response.data, "signature")
    /\ Get(response.data, "signature") = ClaimSig(ForgerKey, sent)
    /\ raised = "HTTPError" /\ trace = <<"raise_for_status">>

====
